---------------------------- MODULE Spec2Model ----------------------------
(***************************************************************************)
(* A model of the PSoC bootloader host (src/src/lib.rs): the packet codec  *)
(* (create_packet, transmit), the CYACD text parser (from_ascii,           *)
(* parse_header, parse_row) and the session that bootload() runs.          *)
(*                                                                         *)
(* Bytes are the integers 0..255; text is a sequence of bytes (the UTF-8   *)
(* bytes of a Rust String); a u16 is an integer 0..65535.                  *)
(***************************************************************************)
EXTENDS Bags, FiniteSets, Integers, Sequences, TLC

VARIABLES
    overflow_checks,  \* build profile: TRUE = arithmetic overflow aborts (debug), FALSE = wraps
    \* ---- the session run by bootload()
    image,            \* the lines of the image file handed to bootload()
    input,            \* the image lines read_line has not yet returned
    pc,               \* position of bootload()
    header,           \* the CyacdHeader parse_header returned
    row,              \* the FlashRow being programmed
    offset,           \* program_row's offset
    rxq,              \* bytes the device has sent that the host has not read
    log,              \* what the host did to the transport, in order: open (n = 1 iff it
                      \* returned true), write (data = the packet), wfail (a write the
                      \* transport refused), read (data = the start and status bytes it
                      \* met, n = 1 iff the device had sent one well-formed frame), close,
                      \* and ifail (reading the image file failed)
    result,           \* what bootload() returned
    \* ---- the codec alone: create_packet, then transmit on a given response
    cmd, payload, reply, packet, rx, txres, cstep,
    \* ---- the parser alone: parse_header and parse_row on a given line
    line, parsed, pstep

vars == <<overflow_checks, image, input, pc, header, row, offset, rxq, log, result,
          cmd, payload, reply, packet, rx, txres, cstep, line, parsed, pstep>>

sessionVars == <<image, input, pc, header, row, offset, rxq, log, result>>
codecVars == <<cmd, payload, reply, packet, rx, txres, cstep>>
parseVars == <<line, parsed, pstep>>

---------------------------------------------------------------------------
(* Bounds of the model.                                                    *)

\* longest payload handed to create_packet in the codec specification
MaxPayloadLen == 53
\* longest row data (bytes) of a one-row image
MaxRowData == 120
\* most row lines in an image
MaxRows == 2

---------------------------------------------------------------------------
(* Values.                                                                 *)

Min(a, b) == IF a < b THEN a ELSE b

\* Result<T, Error>; a panic (abort) is kept as a third outcome
Ok(v) == [ok |-> TRUE, val |-> v, err |-> <<"", "">>]
Err(kind, e) == [ok |-> FALSE, val |-> <<>>, err |-> <<kind, e>>]
Panic(why) == Err("Panic", why)

\* Option<&[u8]>
None == [some |-> FALSE, data |-> <<>>]
Some(d) == [some |-> TRUE, data |-> d]

Commands ==
    {"VerifyChecksum", "GetFlashSize", "GetAppStatus", "EraseRow", "Sync",
     "SetActiveApp", "SendData", "EnterBootloader", "ProgramRow", "VerifyRow",
     "ExitBootloader", "GetMetaData"}

\* CommandCode with the codes of ProgramRow and VerifyRow exchanged
CommandCodeSwapped(c) ==
    CASE c = "VerifyChecksum"  -> 49
      [] c = "GetFlashSize"    -> 50
      [] c = "GetAppStatus"    -> 51
      [] c = "EraseRow"        -> 52
      [] c = "Sync"            -> 53
      [] c = "SetActiveApp"    -> 54
      [] c = "SendData"        -> 55
      [] c = "EnterBootloader" -> 56
      [] c = "ProgramRow"      -> 58
      [] c = "VerifyRow"       -> 57
      [] c = "ExitBootloader"  -> 59
      [] c = "GetMetaData"     -> 60

\* impl Into<u8> for BootloaderCommand
CommandCode(c) ==
    CASE c = "VerifyChecksum"  -> 49   \* 0x31
      [] c = "GetFlashSize"    -> 50   \* 0x32
      [] c = "GetAppStatus"    -> 51   \* 0x33
      [] c = "EraseRow"        -> 52   \* 0x34
      [] c = "Sync"            -> 53   \* 0x35
      [] c = "SetActiveApp"    -> 54   \* 0x36
      [] c = "SendData"        -> 55   \* 0x37
      [] c = "EnterBootloader" -> 56   \* 0x38
      [] c = "ProgramRow"      -> 57   \* 0x39
      [] c = "VerifyRow"       -> 58   \* 0x3A
      [] c = "ExitBootloader"  -> 59   \* 0x3B
      [] c = "GetMetaData"     -> 60   \* 0x3C

\* BootloaderErrorFrom with App and Active one status too early
BootloaderErrorFromShifted(value) ==
    CASE value = 3  -> "Length"
      [] value = 4  -> "Data"
      [] value = 5  -> "Command"
      [] value = 8  -> "Checksum"
      [] value = 9  -> "Array"
      [] value = 10 -> "Row"
      [] value = 11 -> "App"
      [] value = 12 -> "Active"
      [] value = 14 -> "Callback"
      [] OTHER      -> "Unknown"

\* impl From<u8> for BootloaderError
BootloaderErrorFrom(value) ==
    CASE value = 3  -> "Length"
      [] value = 4  -> "Data"
      [] value = 5  -> "Command"
      [] value = 8  -> "Checksum"
      [] value = 9  -> "Array"
      [] value = 10 -> "Row"
      [] value = 12 -> "App"
      [] value = 13 -> "Active"
      [] value = 14 -> "Callback"
      [] value = 15 -> "Unknown"
      [] OTHER      -> "Unknown"

\* impl From<io::Error> for Error
FromIoError == Err("Host", "Device")

---------------------------------------------------------------------------
(* u16 arithmetic.                                                         *)

\* the exact sum of the bytes of s, as the size of the bag that holds the
\* index i exactly s[i] times
ByteSum(s) ==
    CHOOSE t \in {BagCardinality([i \in {j \in DOMAIN v : v[j] > 0} |-> v[i]]) :
                    v \in {s}} : TRUE

\* !x on a u16
Not16(x) == 65535 - x

\* Checksum16 without the "1 +": the one's complement of the sum
Checksum16OnesComplement(bytes, checks) ==
    [panic |-> FALSE, val |-> 65535 - (ByteSum(bytes) % 65536)]

\* iter().fold(0u16, |a,b| a+(*b as u16)) followed by 1 + !checksum:
\* [panic |-> the arithmetic aborted, val |-> the u16 otherwise].
\* The bytes are non-negative, so a partial sum overflows iff the total does.
Checksum16(bytes, checks) ==
    LET total == ByteSum(bytes)
        folded == total % 65536
        neg == 1 + Not16(folded)
    IN  IF checks /\ (total > 65535 \/ neg > 65535)
        THEN [panic |-> TRUE, val |-> 0]
        ELSE [panic |-> FALSE, val |-> neg % 65536]

---------------------------------------------------------------------------
(* FrameCodec.                                                             *)

\* a u16 as the two bytes create_packet pushes: v as u8, (v >> 8) as u8
PushU16(v) == <<v % 256, v \div 256>>

\* ReadU16 with the bytes taken high byte first
ReadU16BigEndian(lo, hi) == hi + 256 * lo

\* a u16 from two received bytes: (lo as u16) | ((hi as u16) << 8)
ReadU16(lo, hi) == lo + 256 * hi

\* Bootloader::create_packet
create_packet(c, data, checks) ==
    LET len == Len(data.data) % 65536      \* data.len() as u16
        body == IF data.some
                THEN <<1, CommandCode(c)>> \o PushU16(len) \o data.data
                ELSE <<1, CommandCode(c), 0, 0>>
        ck == Checksum16(body, checks)
    IN  IF ck.panic THEN Panic("overflow")
        ELSE Ok(body \o PushU16(ck.val) \o <<23>>)

\* Bootloader::transmit on a transport that accepts the write (wr_ok) or not,
\* holds the unread bytes avail and then ends with end-of-stream (rxend = "eof")
\* or a read failure (rxend = "err").
\* [res |-> the Result, wrote |-> tx_data was written, nread |-> bytes consumed]
transmit(tx_data, response, wr_ok, avail, rxend, checks) ==
    IF ~wr_ok THEN [res |-> FromIoError, wrote |-> FALSE, nread |-> 0]
    ELSE IF ~response THEN [res |-> Ok(<<>>), wrote |-> TRUE, nread |-> 0]
    ELSE IF Len(avail) < 4
    THEN [res |-> FromIoError, wrote |-> TRUE, nread |-> Len(avail)]
    ELSE
    LET hdr == SubSeq(avail, 1, 4) IN
    IF hdr[1] # 1
    THEN [res |-> Err("Bootloader", "Data"), wrote |-> TRUE, nread |-> 4]
    ELSE IF hdr[2] # 0
    THEN [res |-> Err("Bootloader", BootloaderErrorFrom(hdr[2])), wrote |-> TRUE, nread |-> 4]
    ELSE
    LET len == ReadU16(hdr[3], hdr[4])
        take == Min(len, Len(avail) - 4)
        rx_data == SubSeq(avail, 5, 4 + take)
    IN
    \* take(len).read_to_end: a read failure is returned, end-of-stream is not
    IF take < len /\ rxend = "err"
    THEN [res |-> FromIoError, wrote |-> TRUE, nread |-> 4 + take]
    ELSE
    LET rest == SubSeq(avail, 5 + take, Len(avail))
        nfoot == Min(3, Len(rest))
        \* read_exact(&mut footer) with its Result dropped: what was read, then
        \* the zeroes the buffer was created with
        footer == [i \in 1..3 |-> IF i <= nfoot THEN rest[i] ELSE 0]
        ck == Checksum16(hdr \o rx_data, checks)
        packet_checksum == ReadU16(footer[1], footer[2])
        res == IF ck.panic THEN Panic("overflow")
               ELSE IF packet_checksum # ck.val THEN Err("Bootloader", "Checksum")
               ELSE IF footer[3] # 23 THEN Err("Bootloader", "Data")
               ELSE Ok(rx_data)
    IN  [res |-> res, wrote |-> TRUE, nread |-> 4 + take + nfoot]

---------------------------------------------------------------------------
(* CyacdParser.                                                            *)

\* an ASCII hex digit, either case
IsHexDigit(b) == b \in 48..57 \/ b \in 65..70 \/ b \in 97..102

HexVal(b) == IF b \in 48..57 THEN b - 48
             ELSE IF b \in 65..70 THEN b - 55
             ELSE b - 87

\* u8::from_str_radix(String::from_utf8_lossy(chunk), 16).ok() on a chunk of one
\* or two bytes: the value, or -1 for None.  A leading '+' (43) is a sign.
ParseChunk(chunk) ==
    IF Len(chunk) = 1
    THEN IF IsHexDigit(chunk[1]) THEN HexVal(chunk[1]) ELSE -1
    ELSE IF chunk[1] = 43
         THEN IF IsHexDigit(chunk[2]) THEN HexVal(chunk[2]) ELSE -1
         ELSE IF IsHexDigit(chunk[1]) /\ IsHexDigit(chunk[2])
              THEN 16 * HexVal(chunk[1]) + HexVal(chunk[2])
              ELSE -1

\* from_ascii: as_bytes().chunks(2).filter_map(parse).collect()
from_ascii(s) ==
    LET chunks == [k \in 1..((Len(s) + 1) \div 2) |->
                      ParseChunk(SubSeq(s, 2 * k - 1, Min(2 * k, Len(s))))]
    IN  SelectSeq(chunks, LAMBDA v : v >= 0)

\* parse_header with silicon_id assembled low byte first
parse_header_little_endian(text) ==
    LET bytes == from_ascii(text) IN
    IF Len(bytes) # 6 THEN Err("Host", "Length")
    ELSE IF bytes[6] \notin {0, 1} THEN Err("Host", "Checksum")
    ELSE Ok([silicon_id |-> bytes[4] * 16777216 + bytes[3] * 65536
                            + bytes[2] * 256 + bytes[1],
             silicon_rev |-> bytes[5],
             checksum_type |-> IF bytes[6] = 0 THEN "Sum" ELSE "Crc"])

\* parse_header on the line read_line returned (empty at end of input)
parse_header(text) ==
    LET bytes == from_ascii(text) IN
    IF Len(bytes) # 6 THEN Err("Host", "Length")
    ELSE IF bytes[6] \notin {0, 1} THEN Err("Host", "Checksum")
    ELSE Ok([silicon_id |-> bytes[1] * 16777216 + bytes[2] * 65536
                            + bytes[3] * 256 + bytes[4],
             silicon_rev |-> bytes[5],
             checksum_type |-> IF bytes[6] = 0 THEN "Sum" ELSE "Crc"])

\* a byte index of a str that is not a char boundary: inside the string and
\* on a UTF-8 continuation byte (index is 0-based, as in Rust)
NotCharBoundary(text, index) ==
    index < Len(text) /\ text[index + 1] \in 128..191

\* RowDataSlice one byte early: the slice starts at the low byte of size
RowDataSliceEarly(bytes, size) == SubSeq(bytes, 5, (size + 4) % 65536)

\* bytes.as_slice()[5..((size + 5) as usize)].to_vec()
RowDataSlice(bytes, size) == SubSeq(bytes, 6, (size + 5) % 65536)

\* parse_row on the line read_line returned (empty at end of input)
parse_row(text, checks) ==
    IF Len(text) = 0 THEN Err("Host", "Eof")
    ELSE IF NotCharBoundary(text, 1) THEN Panic("char boundary")   \* &row[1..]
    ELSE
    LET bytes == from_ascii(Tail(text)) IN
    IF Len(bytes) <= 6 THEN Err("Host", "Length")
    ELSE IF text[1] # 58 THEN Err("Host", "Command")               \* ":"
    ELSE
    LET array_id == bytes[1]
        row_num == bytes[2] * 256 + bytes[3]
        size == bytes[4] * 256 + bytes[5]
        checksum == bytes[Len(bytes)]
    IN
    IF checks /\ size + 6 > 65535 THEN Panic("overflow")
    ELSE IF (size + 6) % 65536 # Len(bytes) THEN Err("Host", "Length")
    ELSE IF checks /\ size + 5 > 65535 THEN Panic("overflow")
    ELSE Ok([array_id |-> array_id,
             row_num |-> row_num,
             size |-> size,
             data |-> RowDataSlice(bytes, size),
             checksum |-> checksum])

---------------------------------------------------------------------------
(* Image text.                                                             *)

\* the upper-case ASCII hex digit of v in 0..15
HexChar(v) == IF v < 10 THEN 48 + v ELSE 55 + v

\* two hex digits for each byte
HexText(bytes) ==
    [i \in 1..(2 * Len(bytes)) |->
        IF i % 2 = 1 THEN HexChar(bytes[(i + 1) \div 2] \div 16)
        ELSE HexChar(bytes[i \div 2] % 16)]

\* n data bytes that differ from place to place and from row to row
RowData(n, seed) == [i \in 1..n |-> (37 * i + seed) % 256]

\* a CYACD row line: ":" arrayId rowNumber(BE) size(BE) data checksum "\n"
RowLine(array_id, row_num, size, data, checksum) ==
    <<58>> \o HexText(<<array_id, row_num \div 256, row_num % 256,
                        size \div 256, size % 256>> \o data \o <<checksum>>)
           \o <<10>>

\* a CYACD header line: siliconId(BE) siliconRev checksumType "\n"
HeaderLine(bytes) == HexText(bytes) \o <<10>>

---------------------------------------------------------------------------
(* The device and the images of the session specification.                 *)

\* a well-formed frame of the wire format: start, code (a status from the
\* device), length (LE), payload, checksum (LE) of everything before it, end
WireFrame(code, pl) ==
    LET body == <<1, code, Len(pl) % 256, Len(pl) \div 256>> \o pl
        ck == (65536 - (ByteSum(body) % 65536)) % 65536
    IN  body \o <<ck % 256, ck \div 256, 23>>

\* s is exactly one well-formed frame
IsWireFrame(s) ==
    Len(s) >= 7 /\ s = WireFrame(s[2], SubSeq(s, 5, Len(s) - 3))

GoodReplies == {WireFrame(0, <<>>), WireFrame(0, <<4, 210>>)}

\* the status bytes the device of the session specification reports
SessionStatuses == {3, 4, 8, 15, 255}

StatusReplies == {WireFrame(s, <<>>) : s \in SessionStatuses}

\* frames broken in one place or cut short
BrokenReplies ==
    LET f == WireFrame(0, <<4, 210>>) IN
    {[f EXCEPT ![1] = 0],                       \* wrong start byte
     [f EXCEPT ![7] = (f[7] + 1) % 256],        \* wrong checksum
     [f EXCEPT ![9] = 0],                       \* wrong end marker
     <<>>, SubSeq(f, 1, 5), SubSeq(f, 1, 7)}

SessionReplies == GoodReplies \union StatusReplies \union BrokenReplies

RxEnds == {"eof", "err"}

GoodHeader == HeaderLine(<<1, 2, 3, 4, 171, 0>>)

BadHeaders == {HeaderLine(<<1, 2, 3, 4, 171, 2>>), HeaderLine(<<1, 2, 3>>)}

\* the one row of a one-row image, of n data bytes
OneRow(n) == RowLine(1, 517, n, RowData(n, n), 204)

\* the lines of the images of several rows: two good rows (one of them sent
\* in chunks), a line without ":", a good row that ends the file without "\n"
RowLines ==
    {RowLine(0, 1, 2, <<170, 187>>, 204),
     RowLine(2, 772, 51, RowData(51, 9), 17),
     Tail(RowLine(0, 1, 2, <<170, 187>>, 204)),
     SubSeq(RowLine(3, 258, 1, <<85>>, 0), 1, 15)}

RECURSIVE SeqsOfLen(_, _)
SeqsOfLen(S, n) ==
    IF n = 0 THEN {<<>>}
    ELSE {<<x>> \o t : x \in S, t \in SeqsOfLen(S, n - 1)}

Images ==
    {<<>>}
    \union {<<h>> : h \in BadHeaders}
    \union {<<GoodHeader>>}
    \union {<<GoodHeader, OneRow(n)>> : n \in 1..MaxRowData}
    \union {<<GoodHeader>> \o rs :
               rs \in UNION {SeqsOfLen(RowLines, k) : k \in 1..MaxRows}}

---------------------------------------------------------------------------
(* BootloadSession: bootload().                                            *)

\* program_row's max_size
max_size == 50

NoRow == [array_id |-> 0, row_num |-> 0, size |-> 0, data |-> <<>>, checksum |-> 0]
NoHeader == [silicon_id |-> 0, silicon_rev |-> 0, checksum_type |-> "Sum"]
NoResult == [ok |-> FALSE, val |-> <<>>, err |-> <<"", "">>]

Ev(op, data, n) == [op |-> op, data |-> data, n |-> n]

\* BufRead::read_line: the next line, empty at end of input
NextLine == IF input = <<>> THEN <<>> ELSE Head(input)

SessionIdle ==
    /\ image = <<>> /\ input = <<>> /\ pc = "idle" /\ header = NoHeader /\ row = NoRow
    /\ offset = 0 /\ rxq = <<>> /\ log = <<>> /\ result = NoResult

CodecIdle ==
    /\ cmd = "Sync" /\ payload = None /\ reply = <<>> /\ packet = <<>>
    /\ rx = <<>> /\ txres = NoResult /\ cstep = "idle"

ParseIdle == line = <<>> /\ parsed = NoResult /\ pstep = "idle"

Init ==
    /\ overflow_checks \in BOOLEAN
    /\ image \in Images
    /\ input = image
    /\ pc = "parse_header"
    /\ header = NoHeader /\ row = NoRow /\ offset = 0
    /\ rxq = <<>> /\ log = <<>> /\ result = NoResult
    /\ CodecIdle /\ ParseIdle

Return(r) == pc' = "done" /\ result' = r

\* Propagate with the error dropped: the session goes on
PropagateSwallow(r, next) == pc' = next /\ result' = result

\* the ? operator on a Result in bootload(): go on to next, or return the error
Propagate(r, next) == IF r.ok THEN pc' = next /\ result' = result ELSE Return(r)

\* let header = parse_header(&mut input)?;
ParseHeader ==
    /\ pc = "parse_header"
    /\ LET r == parse_header(NextLine) IN
       IF r.ok THEN header' = r.val /\ pc' = "open" /\ result' = result
       ELSE header' = header /\ Return(r)
    /\ input' = IF input = <<>> THEN input ELSE Tail(input)
    /\ UNCHANGED <<image, row, offset, rxq, log>>

\* input.read_line(..)? when reading the image fails
ReadFail ==
    /\ pc \in {"parse_header", "parse_row"}
    /\ log' = Append(log, Ev("ifail", <<>>, 0))
    /\ Return(FromIoError)
    /\ UNCHANGED <<image, input, header, row, offset, rxq>>

\* comm.open(); the bool it returns is dropped
Open ==
    /\ pc = "open"
    /\ \E opened \in BOOLEAN : log' = Append(log, Ev("open", <<>>, IF opened THEN 1 ELSE 0))
    /\ pc' = "start_bootloader"
    /\ UNCHANGED <<image, input, header, row, offset, rxq, result>>

\* create_packet(c, data) and transmit(&packet, response)?, the device
\* answering the packet with one of replies; control goes to next on Ok
Exchange(c, data, response, replies, next) ==
    LET pk == create_packet(c, data, overflow_checks) IN
    IF ~pk.ok THEN Return(pk) /\ UNCHANGED <<rxq, log>>
    ELSE
    \E wr_ok \in BOOLEAN, rep \in replies, rxend \in RxEnds :
        LET avail == IF wr_ok THEN rxq \o rep ELSE rxq
            t == transmit(pk.val, response, wr_ok, avail, rxend, overflow_checks)
        IN  /\ rxq' = SubSeq(avail, t.nread + 1, Len(avail))
            /\ Propagate(t.res, next)
            /\ log' = log \o <<Ev(IF t.wrote THEN "write" ELSE "wfail", pk.val, 0)>>
                          \o (IF t.wrote /\ response
                              THEN <<Ev("read", SubSeq(avail, 1, Min(2, Len(avail))),
                                        IF IsWireFrame(avail) THEN 1 ELSE 0)>>
                              ELSE <<>>)

\* comm.start_bootloader(&header)?
StartBootloader ==
    /\ pc = "start_bootloader"
    /\ Exchange("EnterBootloader", None, TRUE, SessionReplies, "parse_row")
    /\ UNCHANGED <<image, input, header, row, offset>>

\* ParseRow with every parse error taken for the end of the image
ParseRowAnyErrorEnds ==
    /\ pc = "parse_row"
    /\ LET r == parse_row(NextLine, overflow_checks) IN
       IF r.ok THEN row' = r.val /\ pc' = "program_row" /\ result' = result
       ELSE row' = row /\ pc' = "stop_bootloader" /\ result' = result
    /\ offset' = 0
    /\ input' = IF input = <<>> THEN input ELSE Tail(input)
    /\ UNCHANGED <<image, header, rxq, log>>

\* match parse_row(&mut input)
ParseRow ==
    /\ pc = "parse_row"
    /\ LET r == parse_row(NextLine, overflow_checks) IN
       IF r.ok THEN row' = r.val /\ pc' = "program_row" /\ result' = result
       ELSE IF r.err = <<"Host", "Eof">>
            THEN row' = row /\ pc' = "stop_bootloader" /\ result' = result
            ELSE row' = row /\ Return(r)
    /\ offset' = 0
    /\ input' = IF input = <<>> THEN input ELSE Tail(input)
    /\ UNCHANGED <<image, header, rxq, log>>

\* MoreChunks with >= for >: a tail of exactly max_size bytes is sent as a chunk
MoreChunksInclusive(r, off) == Len(r.data) - off >= max_size

\* program_row's loop condition: row.data[offset..].len() > max_size
MoreChunks(r, off) == Len(r.data) - off > max_size

\* SendData without the advance of the offset
SendDataStuck ==
    /\ pc = "program_row"
    /\ MoreChunks(row, offset)
    /\ Exchange("SendData", Some(SubSeq(row.data, offset + 1, offset + max_size)),
                TRUE, SessionReplies, "program_row")
    /\ offset' = offset
    /\ UNCHANGED <<image, input, header, row>>

\* program_row: one turn of the while loop
SendData ==
    /\ pc = "program_row"
    /\ MoreChunks(row, offset)
    /\ Exchange("SendData", Some(SubSeq(row.data, offset + 1, offset + max_size)),
                TRUE, SessionReplies, "program_row")
    /\ offset' = offset + max_size
    /\ UNCHANGED <<image, input, header, row>>

\* RowAddress with the row number high byte first
RowAddressBigEndian(r) == <<r.array_id, (r.row_num \div 256) % 256, r.row_num % 256>>

\* the row address both program_row and verify_row send
RowAddress(r) == <<r.array_id, r.row_num % 256, (r.row_num \div 256) % 256>>

\* program_row: after the loop
ProgramRow ==
    /\ pc = "program_row"
    /\ ~MoreChunks(row, offset)
    /\ Exchange("ProgramRow",
                Some(RowAddress(row) \o SubSeq(row.data, offset + 1, Len(row.data))),
                TRUE, SessionReplies, "verify_row")
    /\ UNCHANGED <<image, input, header, row, offset>>

\* VerifyRow left out: the row loop goes straight on to the next row
VerifyRowSkipped ==
    /\ pc = "verify_row"
    /\ pc' = "parse_row"
    /\ UNCHANGED <<image, input, header, row, offset, rxq, log, result>>

\* comm.verify_row(&row)?
VerifyRow ==
    /\ pc = "verify_row"
    /\ Exchange("VerifyRow", Some(RowAddress(row)), TRUE, SessionReplies, "parse_row")
    /\ UNCHANGED <<image, input, header, row, offset>>

\* StopBootloader with transmit(&packet, true): it waits for a response
StopBootloaderAwaits ==
    /\ pc = "stop_bootloader"
    /\ Exchange("ExitBootloader", None, TRUE, {<<>>, WireFrame(0, <<>>)}, "close")
    /\ UNCHANGED <<image, input, header, row, offset>>

\* comm.stop_bootloader()?: no response is read, whatever the device sends
StopBootloader ==
    /\ pc = "stop_bootloader"
    /\ Exchange("ExitBootloader", None, FALSE, {<<>>, WireFrame(0, <<>>)}, "close")
    /\ UNCHANGED <<image, input, header, row, offset>>

\* comm.close(); return Ok(())
Close ==
    /\ pc = "close"
    /\ log' = Append(log, Ev("close", <<>>, 0))
    /\ Return(Ok(<<>>))
    /\ UNCHANGED <<image, input, header, row, offset, rxq>>

Next ==
    \/ (ParseHeader /\ UNCHANGED <<overflow_checks, codecVars, parseVars>>)
    \/ (ReadFail /\ UNCHANGED <<overflow_checks, codecVars, parseVars>>)
    \/ (Open /\ UNCHANGED <<overflow_checks, codecVars, parseVars>>)
    \/ (StartBootloader /\ UNCHANGED <<overflow_checks, codecVars, parseVars>>)
    \/ (ParseRow /\ UNCHANGED <<overflow_checks, codecVars, parseVars>>)
    \/ (SendData /\ UNCHANGED <<overflow_checks, codecVars, parseVars>>)
    \/ (ProgramRow /\ UNCHANGED <<overflow_checks, codecVars, parseVars>>)
    \/ (VerifyRow /\ UNCHANGED <<overflow_checks, codecVars, parseVars>>)
    \/ (StopBootloader /\ UNCHANGED <<overflow_checks, codecVars, parseVars>>)
    \/ (Close /\ UNCHANGED <<overflow_checks, codecVars, parseVars>>)

Spec == Init /\ [][Next]_vars

\* bootload is a sequential call: while it has not returned, its next step
\* runs (every read and write call of the transport returns)
FairSpec == Spec /\ WF_vars(Next)

---------------------------------------------------------------------------
(* The codec alone: create_packet on a command and a payload, the device's *)
(* answer, transmit on that answer.                                        *)

Payloads ==
    {None}
    \union {Some(RowData(n, 3)) : n \in 0..MaxPayloadLen}
    \union {Some([i \in 1..MaxPayloadLen |-> 255])}

\* the packet as the device echoes it: status 0 in place of the command
\* code, the same length and payload, the checksum recomputed
Echo(pk) ==
    LET body == [SubSeq(pk, 1, Len(pk) - 3) EXCEPT ![2] = 0]
        ck == (65536 - (ByteSum(body) % 65536)) % 65536
    IN  body \o <<ck % 256, ck \div 256, 23>>

\* a frame with the given start and status, its checksum off by ckd, its end
\* marker endb, cut to its first cut bytes
RawFrame(start, status, pl, ckd, endb, cut) ==
    LET f == WireFrame(status, pl)
        ck == (f[Len(f) - 2] + 256 * f[Len(f) - 1] + ckd) % 65536
        g == [f EXCEPT ![1] = start, ![Len(f) - 2] = ck % 256,
                       ![Len(f) - 1] = ck \div 256, ![Len(f)] = endb]
    IN  SubSeq(g, 1, Min(cut, Len(g)))

RawPayloads == {<<>>, <<7, 200>>}

\* the length of the long response payloads: enough 0xFF bytes for the byte
\* sum of a response to pass 65535
LongPayloadLen == 258

\* long payloads: all 0xFF (the sum of header and payload passes 65535), and
\* one that brings the sum of header and payload to exactly 65536
LongPayloads ==
    LET n == LongPayloadLen IN
    {[i \in 1..n |-> 255],
     [i \in 1..n |-> IF i <= 256 THEN 255
                     ELSE IF i = 257 THEN 255 - (n % 256) - (n \div 256)
                     ELSE 0]}

RawResponses ==
    {RawFrame(1, s, pl, ckd, endb, cut) :
        s \in 0..255, pl \in RawPayloads, ckd \in {0, 1}, endb \in {23, 0},
        cut \in {2, 4, 5, 8, 9}}
    \union {RawFrame(start, s, pl, 0, 23, 9) :
        start \in {0, 2, 23}, s \in {0, 8}, pl \in RawPayloads}
    \union {RawFrame(1, 0, pl, ckd, endb, LongPayloadLen + 7) :
        pl \in LongPayloads, ckd \in {0, 1}, endb \in {23, 0}}

CodecInit ==
    /\ overflow_checks \in BOOLEAN
    /\ \/ /\ cmd \in Commands
          /\ payload \in Payloads
          /\ reply = [kind |-> "echo", bytes |-> <<>>]
       \/ /\ cmd = "EnterBootloader"
          /\ payload = None
          /\ reply \in {[kind |-> "raw", bytes |-> r] : r \in RawResponses}
    /\ packet = <<>> /\ rx = <<>> /\ txres = NoResult /\ cstep = "build"
    /\ SessionIdle /\ ParseIdle

\* let packet = Self::create_packet(cmd, data);
CreatePacket ==
    /\ cstep = "build"
    /\ LET pk == create_packet(cmd, payload, overflow_checks) IN
       IF pk.ok THEN packet' = pk.val /\ txres' = txres /\ cstep' = "built"
       ELSE packet' = packet /\ txres' = pk /\ cstep' = "done"
    /\ UNCHANGED <<cmd, payload, reply, rx>>

\* the device answers the packet
DeviceReply ==
    /\ cstep = "built"
    /\ rx' = IF reply.kind = "echo" THEN Echo(packet) ELSE reply.bytes
    /\ cstep' = "replied"
    /\ UNCHANGED <<cmd, payload, reply, packet, txres>>

\* self.transmit(&packet, true)
Receive ==
    /\ cstep = "replied"
    /\ \E rxend \in RxEnds :
          txres' = transmit(packet, TRUE, TRUE, rx, rxend, overflow_checks).res
    /\ cstep' = "done"
    /\ UNCHANGED <<cmd, payload, reply, packet, rx>>

CodecNext ==
    \/ (CreatePacket /\ UNCHANGED <<overflow_checks, sessionVars, parseVars>>)
    \/ (DeviceReply /\ UNCHANGED <<overflow_checks, sessionVars, parseVars>>)
    \/ (Receive /\ UNCHANGED <<overflow_checks, sessionVars, parseVars>>)

CodecSpec == CodecInit /\ [][CodecNext]_vars

---------------------------------------------------------------------------
(* The parser alone: parse_header and parse_row on one line.               *)

\* most data bytes of a row line of the parser specification
MaxParseData == 3

\* what a line may start with: ":", "0", "G", " ", "+", and the two bytes
\* of a non-ASCII character
LineStarts == {<<58>>, <<48>>, <<71>>, <<32>>, <<43>>, <<195, 169>>}

\* how a line may end: nothing (end of file), "\n", "\r\n"
LineEnds == {<<>>, <<10>>, <<13, 10>>}

\* the declared sizes of the row lines
ParseSizes == {0, 1, 2, 3, 65530, 65534, 65535}

\* the bytes row lines and header lines encode
LineBytes ==
    {<<a, rn \div 256, rn % 256, sz \div 256, sz % 256>> \o RowData(k, 1) \o <<204>> :
        a \in {1}, rn \in {5, 517}, sz \in ParseSizes, k \in 0..MaxParseData}
    \union {RowData(j, 2) : j \in 0..6}
    \union {<<1, 2, 3, 4, 171, t>> : t \in 0..2}
    \union {<<1, 0, 5, 0, 2, 170, 187, 204>>}

ParseLines ==
    {<<>>, <<10>>}
    \union {st \o HexText(b) \o en : st \in LineStarts, b \in LineBytes, en \in LineEnds}
    \union {HexText(b) \o en : b \in LineBytes, en \in LineEnds}

ParseInit ==
    /\ overflow_checks \in BOOLEAN
    /\ line \in ParseLines
    /\ parsed = NoResult /\ pstep = "ready"
    /\ SessionIdle /\ CodecIdle

\* parse_row(&mut input) with line the next line of the input
ParseRowLine ==
    /\ pstep = "ready"
    /\ parsed' = parse_row(line, overflow_checks)
    /\ pstep' = "row"
    /\ UNCHANGED line

\* parse_header(&mut input) with line the first line of the input
ParseHeaderLine ==
    /\ pstep = "ready"
    /\ parsed' = parse_header(line)
    /\ pstep' = "header"
    /\ UNCHANGED line

ParseNext ==
    \/ (ParseRowLine /\ UNCHANGED <<overflow_checks, sessionVars, codecVars>>)
    \/ (ParseHeaderLine /\ UNCHANGED <<overflow_checks, sessionVars, codecVars>>)

ParseSpec == ParseInit /\ [][ParseNext]_vars

---------------------------------------------------------------------------
(* What the specification says, stated apart from the code's operators.    *)

\* the packets written to the transport, in order
Writes ==
    LET w == SelectSeq(log, LAMBDA e : e.op = "write")
    IN  [i \in 1..Len(w) |-> w[i].data]

\* the payload of a packet or frame
PayloadOf(p) == SubSeq(p, 5, Len(p) - 3)

\* the specification's checksum of the bytes before the checksum field
SpecChecksum(bytes) == (1 + (65535 - (ByteSum(bytes) % 65536))) % 65536

\* the specification's command code table
CodeTable ==
    {<<"VerifyChecksum", 49>>, <<"GetFlashSize", 50>>, <<"GetAppStatus", 51>>,
     <<"EraseRow", 52>>, <<"Sync", 53>>, <<"SetActiveApp", 54>>,
     <<"SendData", 55>>, <<"EnterBootloader", 56>>, <<"ProgramRow", 57>>,
     <<"VerifyRow", 58>>, <<"ExitBootloader", 59>>, <<"GetMetaData", 60>>}

\* the specification's ErrorMapping
StatusTable ==
    {<<3, "Length">>, <<4, "Data">>, <<5, "Command">>, <<8, "Checksum">>,
     <<9, "Array">>, <<10, "Row">>, <<12, "App">>, <<13, "Active">>,
     <<14, "Callback">>}

SpecStatusName(s) ==
    IF \E e \in StatusTable : e[1] = s
    THEN (CHOOSE e \in StatusTable : e[1] = s)[2]
    ELSE "Unknown"

\* the image is a valid header line followed by valid row lines
ValidImage ==
    /\ Len(image) >= 1
    /\ parse_header(image[1]).ok
    /\ \A i \in 2..Len(image) : parse_row(image[i], FALSE).ok

\* the packets of a row's data after the first `off` bytes, as the
\* specification chunks them
RECURSIVE SpecRowPackets(_, _, _)
SpecRowPackets(addr, data, off) ==
    IF Len(data) - off > 50
    THEN <<WireFrame(55, SubSeq(data, off + 1, off + 50))>>
         \o SpecRowPackets(addr, data, off + 50)
    ELSE <<WireFrame(57, addr \o SubSeq(data, off + 1, Len(data))),
           WireFrame(58, addr)>>

RECURSIVE SpecImagePackets(_, _)
SpecImagePackets(img, i) ==
    IF i > Len(img) THEN <<>>
    ELSE LET r == parse_row(img[i], FALSE).val
         IN  SpecRowPackets(<<r.array_id, r.row_num % 256, r.row_num \div 256>>,
                            r.data, 0)
             \o SpecImagePackets(img, i + 1)

\* EnterBootloader, each row's packets in image order, ExitBootloader
ExpectedWrites ==
    <<WireFrame(56, <<>>)>> \o SpecImagePackets(image, 2) \o <<WireFrame(59, <<>>)>>

IsPrefix(a, b) == Len(a) <= Len(b) /\ a = SubSeq(b, 1, Len(a))

\* every response so far was one well-formed frame of status 0
AllRepliesGood ==
    \A i \in DOMAIN log : log[i].op = "read" => log[i].n = 1 /\ log[i].data = <<1, 0>>

\* no write was refused and no read of the image failed
NoIoFailure == \A i \in DOMAIN log : log[i].op \notin {"wfail", "ifail"}

CleanRun == ValidImage /\ AllRepliesGood /\ NoIoFailure

\* C1: on a valid image (a header line and k >= 0 row lines) with a device
\* that answers every packet with a well-formed status-0 frame, bootload
\* writes EnterBootloader, then each row's SendData packets, ProgramRow and
\* VerifyRow in image order, then ExitBootloader, and nothing else; it then
\* calls close and returns Ok.
C1_CleanSessionSequence ==
    CleanRun =>
        /\ IsPrefix(Writes, ExpectedWrites)
        /\ (\E i \in DOMAIN log : log[i].op = "close") => Writes = ExpectedWrites
        /\ pc = "done" =>
              /\ Writes = ExpectedWrites
              /\ log[Len(log)].op = "close"
              /\ Cardinality({i \in DOMAIN log : log[i].op = "close"}) = 1
              /\ result = Ok(<<>>)

\* a clean session of two rows, one of them sent in chunks, has returned
C1_Witness ==
    /\ CleanRun /\ pc = "done" /\ Len(image) = 3
    /\ Len(Writes) = 7 /\ result.ok

\* C2: a response with start byte 1 and a non-zero status s ends the session at
\* once: bootload returns Bootloader(map(s)) and that read is the last thing
\* done to the transport (no further packet, no ExitBootloader, no close).
C2_DeviceStatusAborts ==
    \A i \in DOMAIN log :
        (log[i].op = "read" /\ Len(log[i].data) = 2
            /\ log[i].data[1] = 1 /\ log[i].data[2] # 0)
        => /\ i = Len(log)
           /\ pc = "done"
           /\ result = Err("Bootloader", SpecStatusName(log[i].data[2]))
           /\ \A j \in DOMAIN log : log[j].op = "write" => log[j].data[2] # 59

\* VerifyRow was answered with status 0x08 and bootload returned Bootloader(Checksum)
C2_Witness ==
    /\ Len(log) >= 2
    /\ log[Len(log)].op = "read" /\ log[Len(log)].data = <<1, 8>>
    /\ log[Len(log) - 1].op = "write" /\ log[Len(log) - 1].data[2] = 58
    /\ result = Err("Bootloader", "Checksum")

\* C3 (as claimed): when open() returns false, bootload returns Host(Device)
\* and writes no packet to the transport.
C3_OpenFailureIsFatal ==
    \A i \in DOMAIN log :
        (log[i].op = "open" /\ log[i].n = 0)
        => /\ \A j \in DOMAIN log : log[j].op # "write"
           /\ pc = "done" => result = Err("Host", "Device")

\* C4: when program_row has returned Ok for a row of n >= 1 data bytes, the
\* last ceil(n/50) packets written are ceil(n/50) - 1 SendData packets of
\* exactly 50 payload bytes each and one ProgramRow packet whose payload is
\* the row address followed by a tail of 1..50 bytes; the chunks and the tail
\* are the row data in order, the packet before them belongs to no row data,
\* and every SendData or ProgramRow is followed by a read whose response was a
\* success before anything else is done.
C4_Chunking ==
    /\ pc = "verify_row" =>
        LET n == Len(row.data)
            c == (n + 49) \div 50
            W == Writes
            k == Len(W)
            addr == <<row.array_id, row.row_num % 256, row.row_num \div 256>>
        IN  /\ n >= 1
            /\ k >= c + 1
            /\ \A j \in 1..(c - 1) :
                  /\ W[k - c + j][2] = 55
                  /\ Len(PayloadOf(W[k - c + j])) = 50
                  /\ PayloadOf(W[k - c + j]) = SubSeq(row.data, 50 * (j - 1) + 1, 50 * j)
            /\ W[k][2] = 57
            /\ Len(PayloadOf(W[k])) - 3 \in 1..50
            /\ PayloadOf(W[k]) = addr \o SubSeq(row.data, 50 * (c - 1) + 1, n)
            /\ W[k - c][2] \notin {55, 57}
    /\ \A i \in DOMAIN log :
        (log[i].op = "write" /\ log[i].data[2] \in {55, 57})
        => /\ i < Len(log) /\ log[i + 1].op = "read"
           /\ (i + 1 < Len(log) => log[i + 1].data = <<1, 0>> /\ log[i + 1].n = 1)

\* program_row has sent a row of 100 bytes: one SendData and a 50-byte tail
C4_Witness ==
    /\ pc = "verify_row" /\ Len(row.data) = 100
    /\ Len(Writes) = 3 /\ Writes[2][2] = 55 /\ Len(PayloadOf(Writes[3])) = 53

\* C7: every packet written in a session carries the two's complement of its
\* byte sum: (sum of the bytes before the checksum + checksum) mod 65536 = 0;
\* its payload has at most 53 bytes, and neither the sum nor 1 + !sum leaves
\* 16 bits, so no build aborts on it.
C7_ChecksumInvariant ==
    /\ \A i \in DOMAIN log :
        log[i].op = "write" =>
            LET p == log[i].data
                sum == ByteSum(SubSeq(p, 1, Len(p) - 3))
                ck == p[Len(p) - 2] + 256 * p[Len(p) - 1]
            IN  /\ (sum + ck) % 65536 = 0
                /\ Len(p) - 7 <= 53
                /\ sum <= 65535
                /\ 1 + (65535 - sum) <= 65535
    /\ result.err[1] # "Panic"

\* a ProgramRow packet with a full 53-byte payload has been written
C7_Witness ==
    \E i \in DOMAIN log :
        log[i].op = "write" /\ log[i].data[2] = 57 /\ Len(log[i].data) = 60

\* C5: for any command and any payload of 0..50 bytes, transmit accepts the
\* device's echo of the packet create_packet built (status 0, same payload,
\* checksum recomputed) and returns exactly the payload.
C5_RoundTrip ==
    (cstep = "done" /\ reply.kind = "echo" /\ Len(payload.data) <= 50)
    => txres = Ok(payload.data)

\* a 50-byte payload has come back from the echo of its SendData packet
C5_Witness ==
    /\ cstep = "done" /\ reply.kind = "echo" /\ cmd = "SendData"
    /\ payload.some /\ Len(payload.data) = 50
    /\ txres.ok /\ txres.val = payload.data /\ Len(rx) = 57

\* C6: for every command and every payload p of 0..53 bytes (or no payload,
\* encoded as length 0) create_packet returns exactly
\* [0x01, code, |p| mod 256, |p| div 256] ++ p ++ [checksum low, checksum
\* high, 0x17], |p| + 7 bytes, with code from the command code table.
C6_PacketLayout ==
    (cstep \in {"built", "replied", "done"} /\ Len(payload.data) <= 53)
    => LET p == payload.data
           head == <<1, packet[2], Len(p) % 256, Len(p) \div 256>> \o p
           ck == SpecChecksum(head)
       IN  /\ Len(packet) = Len(p) + 7
           /\ <<cmd, packet[2]>> \in CodeTable
           /\ packet = head \o <<ck % 256, ck \div 256, 23>>

\* ExitBootloader without payload: 01 3B 00 00 C4 FF 17
C6_Witness ==
    /\ cstep = "built" /\ cmd = "ExitBootloader" /\ ~payload.some
    /\ packet = <<1, 59, 0, 0, 196, 255, 23>>

\* the response transmit read, when the device sent a whole frame
RxFull == Len(rx) >= 7 /\ Len(rx) = 7 + ReadU16(rx[3], rx[4])
RxChecksumField == rx[Len(rx) - 2] + 256 * rx[Len(rx) - 1]
RxChecksumGood == RxChecksumField = SpecChecksum(SubSeq(rx, 1, Len(rx) - 3))

\* C8 (as claimed): a response whose start byte is not 0x01 fails with
\* Host(Data), a status-0 response whose checksum field is wrong with
\* Host(Checksum), a status-0 response with the right checksum and an end
\* marker other than 0x17 with Host(Data); none is a Bootloader(..) error.
C8_FramingErrorsAreHostErrors ==
    (cstep = "done" /\ reply.kind = "raw" /\ Len(rx) >= 4)
    => /\ rx[1] # 1 => txres = Err("Host", "Data")
       /\ (rx[1] = 1 /\ rx[2] = 0 /\ RxFull /\ ~RxChecksumGood)
          => txres = Err("Host", "Checksum")
       /\ (rx[1] = 1 /\ rx[2] = 0 /\ RxFull /\ RxChecksumGood /\ rx[Len(rx)] # 23)
          => txres = Err("Host", "Data")

\* C9: a response with start byte 0x01 and status s # 0 makes transmit fail
\* with Bootloader(map(s)), map being the specification's table with every
\* other value Unknown, whatever length, payload, checksum and end marker
\* follow the status, and whether or not they follow at all.
C9_StatusMapping ==
    (cstep = "done" /\ reply.kind = "raw" /\ Len(rx) >= 4 /\ rx[1] = 1 /\ rx[2] # 0)
    => txres = Err("Bootloader", SpecStatusName(rx[2]))

\* status 0x0D in a frame with a wrong checksum and a wrong end marker: Active
C9_Witness ==
    /\ cstep = "done" /\ reply.kind = "raw" /\ Len(rx) = 9
    /\ rx[1] = 1 /\ rx[2] = 13 /\ ~RxChecksumGood /\ rx[9] # 23
    /\ txres = Err("Bootloader", "Active")

\* C10 (as claimed): a non-empty row line that does not start with ":" fails
\* with Host(Command) whatever follows, and Host(Length) is returned only for
\* lines that start with ":".
C10_MissingColonIsCommandError ==
    /\ (pstep = "row" /\ Len(line) > 0 /\ line[1] # 58)
       => parsed = Err("Host", "Command")
    /\ (pstep = "row" /\ parsed = Err("Host", "Length"))
       => line[1] = 58

\* the bytes a row line that starts with ":" decodes to
RowBytes == from_ascii(Tail(line))

\* C11 (as claimed): a row line that starts with ":" and decodes to more than
\* 6 bytes fails with Host(Length) whenever declaredSize + 6, as an exact sum,
\* differs from the decoded byte count, also for declaredSize 0xFFFA..0xFFFF.
C11_SizeMismatchIsLengthError ==
    (pstep = "row" /\ Len(line) > 0 /\ line[1] = 58 /\ Len(RowBytes) > 6
        /\ (RowBytes[4] * 256 + RowBytes[5]) + 6 # Len(RowBytes))
    => parsed = Err("Host", "Length")

\* C12: parse_header succeeds exactly when the line decodes to exactly 6
\* bytes with byte 5 in {0, 1}; it then returns siliconId = bytes 0..3 high
\* byte first, siliconRev = byte 4, checksumType = Sum for 0 and Crc for 1
\* ("01020304AB00" gives 0x01020304, 0xAB, Sum).  Any other byte count,
\* the empty stream included, is Host(Length); 6 bytes with another byte 5
\* are Host(Checksum).
C12_HeaderParse ==
    pstep = "header" =>
        LET b == from_ascii(line) IN
        /\ parsed.ok <=> (Len(b) = 6 /\ b[6] \in {0, 1})
        /\ parsed.ok =>
              /\ parsed.val.silicon_id = ((b[1] * 256 + b[2]) * 256 + b[3]) * 256 + b[4]
              /\ parsed.val.silicon_rev = b[5]
              /\ parsed.val.checksum_type = (IF b[6] = 0 THEN "Sum" ELSE "Crc")
        /\ Len(b) # 6 => parsed = Err("Host", "Length")
        /\ (Len(b) = 6 /\ b[6] \notin {0, 1}) => parsed = Err("Host", "Checksum")
        /\ line = <<>> => parsed = Err("Host", "Length")
        /\ line = <<48, 49, 48, 50, 48, 51, 48, 52, 65, 66, 48, 48>> =>
              parsed = Ok([silicon_id |-> 16909060, silicon_rev |-> 171,
                           checksum_type |-> "Sum"])

\* "01020304AB00" has been parsed as a header
C12_Witness ==
    /\ pstep = "header"
    /\ line = <<48, 49, 48, 50, 48, 51, 48, 52, 65, 66, 48, 48>>
    /\ parsed.ok /\ parsed.val.silicon_id = 16909060

\* the (arrayId, rowNumber) of the image's row lines, up to the first line
\* that is not a row
RECURSIVE SpecImageAddrs(_, _)
SpecImageAddrs(img, i) ==
    IF i > Len(img) THEN <<>>
    ELSE LET r == parse_row(img[i], FALSE)
         IN  IF ~r.ok THEN <<>>
             ELSE <<(<<r.val.array_id, r.val.row_num>>)>> \o SpecImageAddrs(img, i + 1)

\* the (arrayId, rowNumber) the ProgramRow packets written carry, in order
ProgramAddrs ==
    LET w == SelectSeq(log, LAMBDA e : e.op = "write" /\ e.data[2] = 57)
    IN  [i \in 1..Len(w) |-> <<w[i].data[5], w[i].data[6] + 256 * w[i].data[7]>>]

\* C13: in every session, failing or not, the addresses of the ProgramRow
\* packets written are a prefix of the addresses of the image's rows in image
\* order, and between a ProgramRow packet and any later SendData or ProgramRow
\* packet there is the VerifyRow packet of the same address, written and
\* answered with a success response.
C13_RowOrder ==
    /\ IsPrefix(ProgramAddrs, SpecImageAddrs(image, 2))
    /\ \A j \in DOMAIN log : \A i \in DOMAIN log :
        (j < i /\ log[j].op = "write" /\ log[j].data[2] = 57
               /\ log[i].op = "write" /\ log[i].data[2] \in {55, 57})
        => \E k \in (j + 1)..(i - 2) :
              /\ log[k].op = "write" /\ log[k].data[2] = 58
              /\ PayloadOf(log[k].data) = SubSeq(PayloadOf(log[j].data), 1, 3)
              /\ log[k + 1].op = "read"
              /\ log[k + 1].data = <<1, 0>> /\ log[k + 1].n = 1

\* two rows of different addresses have been programmed one after the other
C13_Witness ==
    /\ Len(ProgramAddrs) = 2
    /\ ProgramAddrs[1] # ProgramAddrs[2]
    /\ ProgramAddrs = SubSeq(SpecImageAddrs(image, 2), 1, 2)

\* the ExitBootloader packet has been handed to the transport
ExitAttempted ==
    \E i \in DOMAIN log : log[i].op \in {"write", "wfail"} /\ log[i].data[2] = 59

Closed == \E i \in DOMAIN log : log[i].op = "close"

\* C14: ExitBootloader is written and close() is called only on the clean end
\* of the image: every line has been read, the header and every row line were
\* valid.  close() comes after the ExitBootloader packet was written, and when
\* bootload has returned, close() has been called iff it returned Ok.
C14_ShutdownOnlyOnEof ==
    /\ (ExitAttempted \/ Closed) =>
          /\ input = <<>>
          /\ ValidImage
          /\ pc \in {"close", "done"}
    /\ \A i \in DOMAIN log :
          log[i].op = "close" =>
              /\ i = Len(log) /\ i > 1
              /\ log[i - 1].op = "write" /\ log[i - 1].data[2] = 59
    /\ pc = "done" => (Closed <=> result.ok)
    /\ pc # "done" => ~Closed

\* a session that programmed a row has closed the transport and returned Ok
C14_Witness ==
    /\ pc = "done" /\ Closed /\ result.ok /\ Len(image) = 2 /\ Len(Writes) >= 4

\* C15 (as claimed): open() is the first thing a session does: once the
\* header line has been read, or anything has been done to the transport,
\* open() has been called exactly once and before everything else, so a
\* session that failed on its header has opened the transport.
C15_OpenIsFirst ==
    /\ (pc # "parse_header" \/ input # image \/ log # <<>>) =>
          /\ Len(log) >= 1 /\ log[1].op = "open"
          /\ Cardinality({i \in DOMAIN log : log[i].op = "open"}) = 1
    /\ (pc = "done" /\ ~parse_header(IF image = <<>> THEN <<>> ELSE image[1]).ok) =>
          \E i \in DOMAIN log : log[i].op = "open"

\* C16 (as claimed): when the stream ends or fails before the 4 header
\* bytes, the declared payload and the 3 footer bytes of a status-0 response
\* have all been read, transmit fails with Host(Device); a payload it returns
\* has exactly the declared length.
C16_ShortReadIsDeviceError ==
    (cstep = "done" /\ reply.kind = "raw") =>
        /\ Len(rx) < 4 => txres = Err("Host", "Device")
        /\ (Len(rx) >= 4 /\ rx[1] = 1 /\ rx[2] = 0
               /\ Len(rx) < 4 + ReadU16(rx[3], rx[4]) + 3)
           => txres = Err("Host", "Device")
        /\ (txres.ok /\ Len(rx) >= 4) => Len(txres.val) = ReadU16(rx[3], rx[4])

\* the ExitBootloader packet has been written
ExitWritten ==
    \E i \in DOMAIN log : log[i].op = "write" /\ log[i].data[2] = 59

\* C17: after the ExitBootloader packet has been written the session reads
\* nothing and writes nothing more: only close() follows, whatever the device
\* has sent stays unread, and bootload returns Ok whether the device answered
\* or not.  Every other packet written is followed by a read of its response.
C17_ExitFireAndForget ==
    /\ \A i \in DOMAIN log :
          log[i].op = "write" =>
              IF log[i].data[2] = 59
              THEN /\ \A j \in (i + 1)..Len(log) : log[j].op = "close"
                   /\ Len(log) <= i + 1
              ELSE i < Len(log) /\ log[i + 1].op = "read"
    /\ ExitWritten =>
          /\ rxq \in {<<>>, WireFrame(0, <<>>)}
          /\ pc \in {"close", "done"}
          /\ pc = "done" => result = Ok(<<>>) /\ log[Len(log)].op = "close"

\* the session has returned Ok with the device's answer to ExitBootloader unread
C17_Witness ==
    /\ pc = "done" /\ result.ok /\ ExitWritten
    /\ rxq = WireFrame(0, <<>>)
    /\ Len(image) = 2

\* C18: a FlashRow that parse_row returns comes from a line whose decoded
\* byte count is declaredSize + 6; arrayId is byte 0, rowNumber bytes 1..2 and
\* declaredSize bytes 3..4 high byte first, data the declaredSize >= 1 bytes
\* from byte 5 on, checksum the last byte.  A line that declares size 0 (6
\* decoded bytes) is Host(Length).  ":0100050002AABBCC" gives arrayId 1,
\* rowNumber 5, data [0xAA, 0xBB], checksum 0xCC.
C18_FlashRowInvariant ==
    pstep = "row" =>
        /\ parsed.ok =>
              LET b == RowBytes
                  r == parsed.val
              IN  /\ line[1] = 58
                  /\ Len(b) = r.size + 6
                  /\ r.array_id = b[1]
                  /\ r.row_num = 256 * b[2] + b[3]
                  /\ r.size = 256 * b[4] + b[5]
                  /\ r.size >= 1
                  /\ Len(r.data) = r.size
                  /\ \A i \in 1..r.size : r.data[i] = b[5 + i]
                  /\ r.checksum = b[Len(b)]
        /\ (Len(line) > 0 /\ line[1] = 58 /\ Len(RowBytes) = 6)
           => parsed = Err("Host", "Length")
        /\ line = <<58, 48, 49, 48, 48, 48, 53, 48, 48, 48, 50, 65, 65, 66, 66, 67, 67>>
           => parsed = Ok([array_id |-> 1, row_num |-> 5, size |-> 2,
                           data |-> <<170, 187>>, checksum |-> 204])

\* ":010205" + size 3 + three data bytes + checksum has been parsed as a row
C18_Witness ==
    /\ pstep = "row" /\ parsed.ok
    /\ parsed.val.row_num = 517 /\ parsed.val.size = 3
    /\ Len(parsed.val.data) = 3 /\ parsed.val.checksum = 204

\* C19 (as claimed): on a whole status-0 response of any payload length,
\* transmit recomputes the checksum as (1 + !(sum mod 65536)) mod 65536, also
\* when the byte sum passes 65535 or is a multiple of 65536; the arithmetic
\* wraps and never aborts, and the response is accepted exactly when its
\* checksum field has that value and its end marker is 0x17.
C19_ChecksumWraps ==
    (cstep = "done" /\ reply.kind = "raw" /\ RxFull /\ rx[1] = 1 /\ rx[2] = 0)
    => /\ txres.err[1] # "Panic"
       /\ txres.ok <=> (RxChecksumGood /\ rx[Len(rx)] = 23)
       /\ txres.ok => txres.val = PayloadOf(rx)

\* ceil(n / 50)
Chunks(n) == (n + 49) \div 50

\* the specification's bound on the packets of a session: EnterBootloader and
\* ExitBootloader, and ceil(n/50) + 1 packets for each row line of n data bytes
RECURSIVE RowPacketBound(_, _)
RowPacketBound(img, i) ==
    IF i > Len(img) THEN 0
    ELSE LET r == parse_row(img[i], FALSE)
         IN  (IF r.ok THEN Chunks(Len(r.val.data)) + 1 ELSE 0)
             + RowPacketBound(img, i + 1)

PacketBound == 2 + RowPacketBound(image, 2)

\* the packets handed to the transport, written or refused
PacketsSent == Len(SelectSeq(log, LAMBDA e : e.op \in {"write", "wfail"}))

\* C20: the session always terminates: for every finite image and a transport
\* whose calls all return, bootload eventually returns; each SendData that
\* keeps the chunk loop going advances the offset by exactly 50, the loop
\* takes at most ceil(n/50) - 1 turns for a row of n data bytes, the row loop
\* consumes one image line per turn, and the packets written are at most
\* 2 + the sum over the rows of (ceil(n/50) + 1).
C20_Terminates ==
    /\ <>(pc = "done")
    /\ [](pc = "program_row" =>
            /\ Len(row.data) >= 1
            /\ offset % 50 = 0
            /\ offset \div 50 <= Chunks(Len(row.data)) - 1)
    /\ [](PacketsSent <= PacketBound)
    /\ [][(pc = "program_row" /\ pc' = "program_row")
            => (offset' = offset + 50 /\ offset' < Len(row.data) /\ row' = row)]_vars
    /\ [][(pc = "parse_row" /\ pc' = "program_row")
            => (input # <<>> /\ input' = Tail(input))]_vars
    /\ [][Len(input') <= Len(input)]_vars

\* a whole session over an image of two rows, one of them sent in two chunks,
\* has returned after exactly the bound's number of packets
C20_Witness ==
    /\ pc = "done" /\ result = Ok(<<>>)
    /\ Len(image) = 3
    /\ \E i \in 2..3 : Len(parse_row(image[i], FALSE).val.data) > 50
    /\ PacketsSent = PacketBound
    /\ PacketBound = 7

=============================================================================
